---------------------------- MODULE Spec2Model ----------------------------
(***************************************************************************)
(* Model of sfdata_collector: the SFpark polling loop of                   *)
(* sfdata_collector.py and the record constructors of SFparkDataModels.py. *)
(*                                                                         *)
(* One worker (the main thread) runs  check -> collect -> commit -> sleep  *)
(* and one listener thread (input_thread) appends to the list L once the   *)
(* operator enters a line.  The database is modelled by its four tables;   *)
(* the SQLAlchemy session by the rows added to it and not yet committed.   *)
(***************************************************************************)
EXTENDS Integers, Sequences, FiniteSets, Bags, TLC

(***************************************************************************)
(* Bounds of the model.                                                    *)
(***************************************************************************)
MaxAvl    == 2    \* at most MaxAvl entries in the AVL array of a response
MaxCycles == 2    \* cycles started, over all runs of the process

VARIABLES
  pc,               \* position of the main thread
  lpc,              \* position of input_thread
  L,                \* the list shared by the two threads
  storedLocations,  \* module global: ids of the locations already written
  lastDate,         \* module global: date_id of the last refresh
  session,          \* rows added to the session and not yet committed
  sessionOpen,      \* FALSE once session.close() has run
  db,               \* the four tables of the database
  data,             \* the response document of the cycle in flight
  printed,          \* the last line collectSFparkData printed
  exitStatus,       \* exit status of the process, -1 while it runs
  exception,        \* the exception that ended the process, "" if none
  pre,              \* history: the globals as they were when the cycle began
  everStaged,       \* history: bag of the location ids ever added to a session
  runStaged,        \* history: bag of those this process added to its session
  cycles,           \* history: cycles started, over all runs
  afterFlag,        \* history: cycles committed since L became non-empty
  argv,             \* sys.argv of the process
  tick              \* history: elapsedTime and the sleep of lines 185-187

vars == <<pc, lpc, L, storedLocations, lastDate, session, sessionOpen, db,
          data, printed, exitStatus, exception, pre, everStaged, runStaged,
          cycles, afterFlag, argv, tick>>

(***************************************************************************)
(* Response documents.                                                     *)
(***************************************************************************)
\* A clock string "h:mm p" of a RATES or OPHRS entry, by its three parts.
GoodTime == [h |-> 7, m |-> 0, p |-> "AM"]
LateTime == [h |-> 9, m |-> 30, p |-> "PM"]
BadTime  == [h |-> 25, m |-> 0, p |-> "XM"]

\* strptime(s, "%I:%M %p") accepts s
ValidTime(s) == s.h \in 1..12 /\ s.m \in 0..59 /\ s.p \in {"AM", "PM"}

\* strptime(s, "%I:%M %p").time(), in minutes after midnight
ParseTime(s) == ((s.h % 12) + (IF s.p = "PM" THEN 12 ELSE 0)) * 60 + s.m

\* A nested RATES / OPHRS field: absent, a single object, or a list.
NoField      == [has |-> FALSE, isList |-> FALSE, items |-> <<>>]
ObjField(j)  == [has |-> TRUE,  isList |-> FALSE, items |-> <<j>>]
ListField(s) == [has |-> TRUE,  isList |-> TRUE,  items |-> s]

GoodJson == [BEG |-> GoodTime, END |-> LateTime]
BadJson  == [BEG |-> BadTime,  END |-> LateTime]

\* The nested fields of the enumerated entries: none, well-formed lists,
\* and a rates list whose BEG no clock pattern matches.
PlainDetail == [RATES |-> NoField, OPHRS |-> NoField]
RatedDetail == [RATES |-> ListField(<<GoodJson>>),
                OPHRS |-> ListField(<<GoodJson>>)]
BadDetail   == [RATES |-> ListField(<<BadJson>>),
                OPHRS |-> ListField(<<GoodJson>>)]

\* A decimal numeral of a LOC string "-122.4,37.7", by its sign, its whole
\* part and its thousandths.
West1  == [neg |-> TRUE,  whole |-> 122, frac |-> 400]
North1 == [neg |-> FALSE, whole |-> 37,  frac |-> 700]
West2  == [neg |-> TRUE,  whole |-> 122, frac |-> 500]
North2 == [neg |-> FALSE, whole |-> 37,  frac |-> 800]

\* LOC.split(','): one point, two points
OnePoint  == <<West1, North1>>
TwoPoints == <<West1, North1, West2, North2>>

\* Numbers come as strings of decimal digits.  Off-street lots carry OSPID
\* and one point, block faces carry BFID and two points.
AvlEntry(i, d) ==
  IF i % 2 = 1
  THEN [TYPE |-> "OFF", OSPID |-> <<i>>, PTS |-> <<1>>, LOC |-> OnePoint,
        RATES |-> d.RATES, OPHRS |-> d.OPHRS]
  ELSE [TYPE |-> "ON", BFID |-> <<i>>, PTS |-> <<2>>, LOC |-> TwoPoints,
        RATES |-> d.RATES, OPHRS |-> d.OPHRS]

\* The entries the provider sends: lot 1 without rates, block face 2 with
\* its rates and hours, well-formed or not.
AvlEntries ==
  { AvlEntry(1, PlainDetail), AvlEntry(2, RatedDetail),
    AvlEntry(2, BadDetail) }

AvlArrays == UNION { [1..n -> AvlEntries] : n \in 0..MaxAvl }

\* AVAILABILITY_UPDATED_TIMESTAMP split at '.': the six numbers of
\* "yyyy-mm-ddThh:mm:ss", then the digits of the fraction if there is one.
Stamp(y, m, d) == <<y, m, d, 10, 0, 0>>

\* "2013-07-ddT10:00:00.5"
Timestamps == { <<Stamp(2013, 7, d), <<5>>>> : d \in {4, 5} }

NoStamp == <<Stamp(0, 0, 0)>>

SuccessDocs ==
  { [STATUS |-> "SUCCESS", AVAILABILITY_UPDATED_TIMESTAMP |-> t, AVL |-> a,
     ERROR_CODE |-> "", MESSAGE |-> ""] : t \in Timestamps, a \in AvlArrays }

ErrorDocs ==
  { [STATUS |-> "ERROR", AVAILABILITY_UPDATED_TIMESTAMP |-> NoStamp,
     AVL |-> <<>>, ERROR_CODE |-> c, MESSAGE |-> "Server Error"]
      : c \in {"500", "503"} }

Documents == SuccessDocs \cup ErrorDocs

NoData == [STATUS |-> "NONE", AVAILABILITY_UPDATED_TIMESTAMP |-> NoStamp,
           AVL |-> <<>>, ERROR_CODE |-> "", MESSAGE |-> ""]


(***************************************************************************)
(* Record constructors of SFparkDataModels.py.  A row is the record of the *)
(* columns the constructor sets from the arguments the collector passes.   *)
(***************************************************************************)
RECURSIVE int(_)
\* int(s) of a string of decimal digits
int(s) ==
  IF s = <<>> THEN 0 ELSE 10 * int(SubSeq(s, 1, Len(s) - 1)) + s[Len(s)]

\* float(s) of a decimal numeral, in thousandths
float(s) == (IF s.neg THEN -1 ELSE 1) * (1000 * s.whole + s.frac)

\* key in json
Has(json, key) == key \in DOMAIN json

\* a column the constructor leaves unset, and one it sets
None == <<>>
Some(v) == <<v>>

\* an id that takes OSPID for every type but "ON"
LocIdNotOn(avl) == IF avl.TYPE # "ON" THEN int(avl.OSPID) ELSE int(avl.BFID)

\* the location id of an AVL entry
LocId(avl) == IF avl.TYPE = "OFF" THEN int(avl.OSPID) ELSE int(avl.BFID)

\* strptime(string_time[0], "%Y-%m-%dT%H:%M:%S"): the piece before the
\* first '.', as a datetime
UpdatedTime(t) ==
  LET f == t[1]
  IN  [year |-> f[1], month |-> f[2], day |-> f[3],
       secs |-> 3600 * f[4] + 60 * f[5] + f[6]]

\* a date_id with three digits for month and day
DateIdShort(u) == 1000 * u.year + 100 * u.month + u.day

\* date_id of a parsed timestamp
DateId(u) == 10000 * u.year + 100 * u.month + u.day

\* a constructor that reads latitude first in each pair
SFparkLocationRecordLatFirst(loc_id, json) ==
  LET pts == IF Has(json, "PTS") THEN Some(int(json.PTS)) ELSE None
      loc == IF Has(json, "LOC") THEN json.LOC ELSE <<>>
      one == Has(json, "LOC") /\ pts = Some(1)
      two == Has(json, "LOC") /\ pts = Some(2)
  IN  [id       |-> loc_id,
       parktype |-> IF Has(json, "TYPE") THEN Some(json.TYPE) ELSE None,
       ospid    |-> IF Has(json, "OSPID") THEN Some(int(json.OSPID)) ELSE None,
       bfid     |-> IF Has(json, "BFID") THEN Some(int(json.BFID)) ELSE None,
       pts      |-> pts,
       lat1     |-> IF one \/ two THEN Some(float(loc[1])) ELSE None,
       lon1     |-> IF one \/ two THEN Some(float(loc[2])) ELSE None,
       lat2     |-> IF two THEN Some(float(loc[3])) ELSE None,
       lon2     |-> IF two THEN Some(float(loc[4])) ELSE None]

\* SFparkLocationRecord.__init__; loc[0] of the code is loc[1] here
SFparkLocationRecord(loc_id, json) ==
  LET pts == IF Has(json, "PTS") THEN Some(int(json.PTS)) ELSE None
      loc == IF Has(json, "LOC") THEN json.LOC ELSE <<>>
      one == Has(json, "LOC") /\ pts = Some(1)
      two == Has(json, "LOC") /\ pts = Some(2)
  IN  [id       |-> loc_id,
       parktype |-> IF Has(json, "TYPE") THEN Some(json.TYPE) ELSE None,
       ospid    |-> IF Has(json, "OSPID") THEN Some(int(json.OSPID)) ELSE None,
       bfid     |-> IF Has(json, "BFID") THEN Some(int(json.BFID)) ELSE None,
       pts      |-> pts,
       lat1     |-> IF one \/ two THEN Some(float(loc[2])) ELSE None,
       lon1     |-> IF one \/ two THEN Some(float(loc[1])) ELSE None,
       lat2     |-> IF two THEN Some(float(loc[4])) ELSE None,
       lon2     |-> IF two THEN Some(float(loc[3])) ELSE None]

SFparkAvailabilityRecord(loc_id, date_id, updated_time, json) ==
  [loc_id |-> loc_id, date_id |-> date_id,
   availability_updated_timestamp |-> updated_time]

\* the constructor of a rates or operating-hours record raises ValueError
RecordRaises(json) == ~ValidTime(json.BEG) \/ ~ValidTime(json.END)

SFparkRatesRecord(loc_id, date_id, json) ==
  [loc_id |-> loc_id, date_id |-> date_id,
   beg |-> ParseTime(json.BEG), end |-> ParseTime(json.END)]

SFparkOphrsRecord(loc_id, date_id, json) ==
  [loc_id |-> loc_id, date_id |-> date_id,
   beg |-> ParseTime(json.BEG), end |-> ParseTime(json.END)]

(***************************************************************************)
(* collectSFparkData, from the parsed response to the rows in the session. *)
(***************************************************************************)
Min(S) == CHOOSE x \in S : \A y \in S : x <= y

\* the items of a list a loop constructs records for before one raises
GoodPrefix(items) ==
  LET bad == { k \in 1..Len(items) : RecordRaises(items[k]) }
  IN  IF bad = {} THEN items ELSE SubSeq(items, 1, Min(bad) - 1)

\* the loop over a nested field raises
FieldRaises(field) ==
  /\ field.has
  /\ field.isList
  /\ \E k \in 1..Len(field.items) : RecordRaises(field.items[k])

\* the items the loop over a nested field adds records for
FieldItems(field) ==
  IF field.has /\ field.isList THEN GoodPrefix(field.items) ELSE <<>>

RatesRows(avl, date_id) ==
  LET items == FieldItems(avl.RATES)
  IN  [k \in 1..Len(items) |-> SFparkRatesRecord(LocId(avl), date_id, items[k])]

OphrsRows(avl, date_id) ==
  LET items == FieldItems(avl.OPHRS)
  IN  [k \in 1..Len(items) |-> SFparkOphrsRecord(LocId(avl), date_id, items[k])]

\* a pass that adds the rates and hours of an entry and leaves its Location
\* row to another cycle
RefreshEntryNoLocation(acc, avl, date_id) ==
  LET rr == FieldRaises(avl.RATES)
  IN  [stored |-> acc.stored,
       loc    |-> acc.loc,
       rates  |-> acc.rates \o RatesRows(avl, date_id),
       ophrs  |-> IF rr THEN acc.ophrs
                        ELSE acc.ophrs \o OphrsRows(avl, date_id),
       raised |-> rr \/ FieldRaises(avl.OPHRS)]

\* one pass of the body of "for avl in data['AVL']" under the date gate
RefreshEntry(acc, avl, date_id) ==
  LET loc_id == LocId(avl)
      isNew  == loc_id \notin acc.stored
      rr     == FieldRaises(avl.RATES)
  IN  [stored |-> IF isNew THEN acc.stored \cup {loc_id} ELSE acc.stored,
       loc    |-> IF isNew
                  THEN Append(acc.loc, SFparkLocationRecord(loc_id, avl))
                  ELSE acc.loc,
       rates  |-> acc.rates \o RatesRows(avl, date_id),
       ophrs  |-> IF rr THEN acc.ophrs
                        ELSE acc.ophrs \o OphrsRows(avl, date_id),
       raised |-> rr \/ FieldRaises(avl.OPHRS)]

RECURSIVE RefreshLoop(_, _, _, _)
\* the loop of lines 99-124 from entry i on; it stops where a record raises
RefreshLoop(acc, AVL, i, date_id) ==
  IF i > Len(AVL) \/ acc.raised
  THEN acc
  ELSE RefreshLoop(RefreshEntry(acc, AVL[i], date_id), AVL, i + 1, date_id)

\* a loop that skips the entries whose id is not in storedLocations
AvailabilityLoopStored(AVL, date_id, updated_time) ==
  LET known == SelectSeq(AVL, LAMBDA avl : LocId(avl) \in storedLocations)
  IN  [k \in 1..Len(known) |->
         SFparkAvailabilityRecord(LocId(known[k]), date_id, updated_time,
                                  known[k])]

\* the loop of lines 128-136
AvailabilityLoop(AVL, date_id, updated_time) ==
  [k \in 1..Len(AVL) |->
     SFparkAvailabilityRecord(LocId(AVL[k]), date_id, updated_time, AVL[k])]

\* the line printed for a response whose STATUS is not SUCCESS
ErrorLine(doc) == doc.ERROR_CODE \o " " \o doc.MESSAGE

\* a gate that lets every cycle refresh
GateOpenAlways(date_id, last) == TRUE

\* a gate that opens for a later date only
GateOpenNewer(date_id, last) == date_id > last

\* the date gate of line 96
GateOpen(date_id, last) == date_id # last

EmptySession == [loc |-> <<>>, avl |-> <<>>, rates |-> <<>>, ophrs |-> <<>>]

\* a status test that rejects one spelling of failure only
StatusOkLoose(doc) == doc.STATUS # "FAILURE"

\* the test of line 88
StatusOk(doc) == doc.STATUS = "SUCCESS"

\* Lines 88-140 on document doc: the globals, the session and the printed
\* line they leave, and whether an exception left the function.
collectSFparkData(doc, stored, last, sess, line) ==
  IF StatusOk(doc)
  THEN LET updated_time == UpdatedTime(doc.AVAILABILITY_UPDATED_TIMESTAMP)
           date_id == DateId(updated_time)
           acc0 == [stored |-> stored, loc |-> sess.loc, rates |-> sess.rates,
                    ophrs |-> sess.ophrs, raised |-> FALSE]
           acc  == IF GateOpen(date_id, last)
                   THEN RefreshLoop(acc0, doc.AVL, 1, date_id)
                   ELSE acc0
       IN  [raised  |-> acc.raised,
            stored  |-> acc.stored,
            last    |-> IF GateOpen(date_id, last) THEN date_id ELSE last,
            session |-> [loc   |-> acc.loc,
                         avl   |-> IF acc.raised
                                   THEN sess.avl
                                   ELSE sess.avl \o AvailabilityLoop(
                                          doc.AVL, date_id, updated_time),
                         rates |-> acc.rates,
                         ophrs |-> acc.ophrs],
            printed |-> line]
  ELSE [raised |-> FALSE, stored |-> stored, last |-> last,
        session |-> sess, printed |-> ErrorLine(doc)]

(***************************************************************************)
(* The database: sfpark_loc has a primary key given by the program, the    *)
(* other three tables an autoincrement key, so they are bags of rows.      *)
(***************************************************************************)
Range(s) == { s[k] : k \in DOMAIN s }

SeqToBag(s) ==
  [r \in Range(s) |-> Cardinality({ k \in DOMAIN s : s[k] = r })]

EmptyDb == [loc |-> {}, avl |-> EmptyBag, rates |-> EmptyBag,
            ophrs |-> EmptyBag]

LocIds(rows) == { r.id : r \in rows }

SessionEmpty(sess) ==
  Len(sess.loc) + Len(sess.avl) + Len(sess.rates) + Len(sess.ophrs) = 0

\* two pending location rows, or a pending and a stored one, share an id
PrimaryKeyConflict(d, sess) ==
  \/ \E j, k \in 1..Len(sess.loc) : j # k /\ sess.loc[j].id = sess.loc[k].id
  \/ \E k \in 1..Len(sess.loc) : sess.loc[k].id \in LocIds(d.loc)

\* the tables after the pending rows of the session are written
Persist(d, sess) ==
  [loc   |-> d.loc \cup Range(sess.loc),
   avl   |-> d.avl (+) SeqToBag(sess.avl),
   rates |-> d.rates (+) SeqToBag(sess.rates),
   ophrs |-> d.ophrs (+) SeqToBag(sess.ophrs)]

\* the tables had the function committed on its way out of an exception
AfterRaiseFlush(d, sess) == Persist(d, sess)

\* The tables once an exception has left collectSFparkData before line 142:
\* the pending rows were never flushed.
AfterRaise(d, sess) == d

\* a bootstrap that reads no row
initializeSFparkDataEmpty(d) == {}

\* initializeSFparkData: the ids of the rows of sfpark_loc
initializeSFparkData(d) == LocIds(d.loc)

(***************************************************************************)
(* The process.                                                            *)
(***************************************************************************)
NoPre == [lastDate |-> -1, storedLocations |-> {}]

NoTick == [elapsed |-> -1, slept |-> -1]

\* the 60 of lines 186-187, in seconds
Interval == 60

\* the seconds a cycle takes: under, at and over the interval
ElapsedTimes == {5, 60, 75}

\* sys.argv: the script alone, or the script and the connection string
ArgLists ==
  { <<"sfdata_collector.py">>, <<"sfdata_collector.py", "sqlite:///sfpark.db">> }

USAGE == "usage"

Running == pc \notin {"stopped", "crashed"}

Init ==
  /\ pc = "start"
  /\ argv \in ArgLists
  /\ lpc = "idle"
  /\ L = <<>>
  /\ storedLocations = {}
  /\ lastDate = 0
  /\ session = EmptySession
  /\ sessionOpen = FALSE
  /\ db = EmptyDb
  /\ data = NoData
  /\ printed = ""
  /\ tick = NoTick
  /\ exitStatus = -1
  /\ exception = ""
  /\ pre = NoPre
  /\ everStaged = EmptyBag
  /\ runStaged = EmptyBag
  /\ cycles = 0
  /\ afterFlag = 0

\* lines 156-174: the argument test, the session, the bootstrap of
\* storedLocations and the start of input_thread.  sys.argv[1] of line 160
\* raises IndexError when the script is the only element.
Startup ==
  /\ pc = "start"
  /\ IF Len(argv) < 1
     THEN /\ printed' = USAGE
          /\ exitStatus' = 2
          /\ pc' = "stopped"
          /\ UNCHANGED <<exception, sessionOpen, storedLocations, lpc>>
     ELSE IF Len(argv) < 2
     THEN /\ exception' = "IndexError"
          /\ exitStatus' = 1
          /\ pc' = "crashed"
          /\ UNCHANGED <<printed, sessionOpen, storedLocations, lpc>>
     ELSE /\ sessionOpen' = TRUE
          /\ storedLocations' = initializeSFparkData(db)
          /\ printed' = "Press Enter to quit."
          /\ lpc' = "raw_input"
          /\ pc' = "check"
          /\ UNCHANGED <<exception, exitStatus>>
  /\ UNCHANGED <<L, lastDate, session, db, data, pre, everStaged, runStaged,
                 cycles, afterFlag, argv, tick>>

\* a loop that starts the next cycle without testing L
LoopContinueUnchecked ==
  /\ pc = "check"
  /\ cycles < MaxCycles
  /\ pc' = "collect"
  /\ printed' = "Working..."
  /\ pre' = [lastDate |-> lastDate, storedLocations |-> storedLocations]
  /\ cycles' = cycles + 1
  /\ tick' = NoTick
  /\ UNCHANGED <<lpc, L, storedLocations, lastDate, session, sessionOpen, db,
                 data, exitStatus, exception, everStaged, runStaged,
                 afterFlag, argv>>

\* line 178 with L empty, lines 180-182 up to the call
LoopContinue ==
  /\ pc = "check"
  /\ L = <<>>
  /\ cycles < MaxCycles
  /\ pc' = "collect"
  /\ printed' = "Working..."
  /\ pre' = [lastDate |-> lastDate, storedLocations |-> storedLocations]
  /\ cycles' = cycles + 1
  /\ tick' = NoTick
  /\ UNCHANGED <<lpc, L, storedLocations, lastDate, session, sessionOpen, db,
                 data, exitStatus, exception, everStaged, runStaged,
                 afterFlag, argv>>

\* line 178 with L non-empty
LoopBreak ==
  /\ pc = "check"
  /\ L # <<>>
  /\ pc' = "close"
  /\ tick' = NoTick
  /\ UNCHANGED <<lpc, L, storedLocations, lastDate, session, sessionOpen, db,
                 data, printed, exitStatus, exception, pre, everStaged,
                 runStaged, cycles, afterFlag, argv>>

\* a cycle that catches the exception of a record constructor, rolls the
\* session back and goes on to the sleep
CollectCaught(doc) ==
  /\ pc = "collect"
  /\ LET r == collectSFparkData(doc, storedLocations, lastDate, session,
                                printed)
         added == SubSeq(r.session.loc, Len(session.loc) + 1,
                         Len(r.session.loc))
         ids   == SeqToBag([k \in 1..Len(added) |-> added[k].id])
     IN  /\ data' = IF r.raised THEN NoData ELSE doc
         /\ storedLocations' = r.stored
         /\ lastDate' = r.last
         /\ session' = IF r.raised THEN EmptySession ELSE r.session
         /\ printed' = r.printed
         /\ everStaged' = everStaged (+) ids
         /\ runStaged' = runStaged (+) ids
         /\ pc' = IF r.raised THEN "sleep" ELSE "commit"
         /\ pre' = IF r.raised THEN NoPre ELSE pre
  /\ UNCHANGED <<lpc, L, sessionOpen, db, exitStatus, exception, cycles,
                 afterFlag, argv, tick>>

\* lines 82-140: the request returns document doc and it is processed
Collect(doc) ==
  /\ pc = "collect"
  /\ LET r == collectSFparkData(doc, storedLocations, lastDate, session,
                                printed)
         added == SubSeq(r.session.loc, Len(session.loc) + 1,
                         Len(r.session.loc))
         ids   == SeqToBag([k \in 1..Len(added) |-> added[k].id])
     IN  /\ data' = doc
         /\ storedLocations' = r.stored
         /\ lastDate' = r.last
         /\ session' = r.session
         /\ printed' = r.printed
         /\ everStaged' = everStaged (+) ids
         /\ runStaged' = runStaged (+) ids
         /\ pc' = IF r.raised THEN "crashed" ELSE "commit"
         /\ exitStatus' = IF r.raised THEN 1 ELSE exitStatus
         /\ exception' = IF r.raised THEN "ValueError" ELSE exception
         /\ db' = IF r.raised THEN AfterRaise(db, r.session) ELSE db
  /\ UNCHANGED <<lpc, L, sessionOpen, pre, cycles, afterFlag, argv, tick>>

\* lines 82-85: requests.get or r.json raises; nothing catches it
FetchFail ==
  /\ pc = "collect"
  /\ pc' = "crashed"
  /\ exitStatus' = 1
  /\ exception' = "ConnectionError"
  /\ UNCHANGED <<lpc, L, storedLocations, lastDate, session, sessionOpen, db,
                 data, printed, pre, everStaged, runStaged, cycles, afterFlag,
                 argv, tick>>

\* line 142 returns, then line 184
Commit ==
  /\ pc = "commit"
  /\ ~PrimaryKeyConflict(db, session)
  /\ db' = Persist(db, session)
  /\ session' = EmptySession
  /\ pc' = "sleep"
  /\ printed' = "  waiting."
  /\ data' = NoData
  /\ pre' = NoPre
  /\ afterFlag' = IF L # <<>> THEN afterFlag + 1 ELSE afterFlag
  /\ UNCHANGED <<lpc, L, storedLocations, lastDate, sessionOpen, exitStatus,
                 exception, everStaged, runStaged, cycles, argv, tick>>

\* line 142 raises while the pending rows are written: the transaction is
\* rolled back and nothing catches the exception
CommitFail ==
  /\ pc = "commit"
  /\ ~SessionEmpty(session)
  /\ pc' = "crashed"
  /\ exitStatus' = 1
  /\ exception' = "DBAPIError"
  /\ UNCHANGED <<lpc, L, storedLocations, lastDate, session, sessionOpen, db,
                 data, printed, pre, everStaged, runStaged, cycles, afterFlag,
                 argv, tick>>

\* a sleep of the whole interval, whatever the cycle took
SleepTimeFromEnd(elapsed) == Interval

\* lines 186-187: the seconds time.sleep is called with, 0 when it is not
\* called
SleepTime(elapsed) == IF elapsed < Interval THEN Interval - elapsed ELSE 0

\* lines 185-187: the cycle took elapsed seconds since startTime
Sleep ==
  /\ pc = "sleep"
  /\ pc' = "check"
  /\ \E elapsed \in ElapsedTimes :
       tick' = [elapsed |-> elapsed, slept |-> SleepTime(elapsed)]
  /\ UNCHANGED <<lpc, L, storedLocations, lastDate, session, sessionOpen, db,
                 data, printed, exitStatus, exception, pre, everStaged,
                 runStaged, cycles, afterFlag, argv>>

\* lines 191-192 and the end of the script
Close ==
  /\ pc = "close"
  /\ sessionOpen' = FALSE
  /\ printed' = "Thanks for collecting data.  Time for a pint!"
  /\ exitStatus' = 0
  /\ pc' = "stopped"
  /\ UNCHANGED <<lpc, L, storedLocations, lastDate, session, db, data,
                 exception, pre, everStaged, runStaged, cycles, afterFlag,
                 argv, tick>>

\* line 149: the operator enters a line and raw_input returns
ListenerInput ==
  /\ Running
  /\ lpc = "raw_input"
  /\ lpc' = "append"
  /\ UNCHANGED <<pc, L, storedLocations, lastDate, session, sessionOpen, db,
                 data, printed, exitStatus, exception, pre, everStaged,
                 runStaged, cycles, afterFlag, argv, tick>>

\* line 150
ListenerAppend ==
  /\ Running
  /\ lpc = "append"
  /\ L' = Append(L, "None")
  /\ lpc' = "done"
  /\ UNCHANGED <<pc, storedLocations, lastDate, session, sessionOpen, db,
                 data, printed, exitStatus, exception, pre, everStaged,
                 runStaged, cycles, afterFlag, argv, tick>>

\* the process has exited and is started again on the same database:
\* the module globals of lines 52-53
Restart ==
  /\ ~Running
  /\ pc' = "start"
  /\ argv' \in ArgLists
  /\ lpc' = "idle"
  /\ L' = <<>>
  /\ storedLocations' = {}
  /\ lastDate' = 0
  /\ session' = EmptySession
  /\ sessionOpen' = FALSE
  /\ data' = NoData
  /\ printed' = ""
  /\ tick' = NoTick
  /\ exitStatus' = -1
  /\ exception' = ""
  /\ pre' = NoPre
  /\ runStaged' = EmptyBag
  /\ afterFlag' = 0
  /\ UNCHANGED <<db, everStaged, cycles>>

Worker ==
  \/ Startup
  \/ LoopContinue
  \/ LoopBreak
  \/ \E doc \in Documents : Collect(doc)
  \/ FetchFail
  \/ Commit
  \/ CommitFail
  \/ Sleep
  \/ Close

Listener == ListenerInput \/ ListenerAppend

Next == Worker \/ Listener \/ Restart

Spec == Init /\ [][Next]_vars

\* One run of the process in which every request and every commit returns,
\* with both threads scheduled.
LiveWorker ==
  \/ Startup
  \/ LoopContinue
  \/ LoopBreak
  \/ \E doc \in Documents : Collect(doc)
  \/ Commit
  \/ Sleep
  \/ Close

LiveNext == LiveWorker \/ Listener

LiveSpec ==
  Init /\ [][LiveNext]_vars /\ WF_vars(LiveWorker) /\ WF_vars(ListenerAppend)

(***************************************************************************)
(* The first cycle of a process on an empty database, over the shapes of   *)
(* timestamp and of location entry the constructors distinguish.           *)
(***************************************************************************)
\* with and without a fraction, over two years and the ends of a month
WideTimestamps ==
  LET stamps == { Stamp(y, m, d) : y \in {2012, 2013}, m \in {1, 7, 12},
                                   d \in {1, 4, 31} }
  IN  { <<f>> : f \in stamps } \cup { <<f, <<5>>>> : f \in stamps }

\* the PTS and LOC keys of an entry: absent, or in and out of step
WideCoordinates ==
  { [LOC |-> OnePoint],
    [PTS |-> <<1>>],
    [PTS |-> <<0>>, LOC |-> OnePoint],
    [PTS |-> <<1>>, LOC |-> OnePoint],
    [PTS |-> <<1>>, LOC |-> TwoPoints],
    [PTS |-> <<2>>, LOC |-> TwoPoints],
    [PTS |-> <<3>>, LOC |-> TwoPoints] }

\* an entry that carries both identifiers, "950" and "21"
WideEntry(type, c) ==
  [k \in {"TYPE", "OSPID", "BFID", "RATES", "OPHRS"} \cup DOMAIN c |->
     CASE k = "TYPE"  -> type
       [] k = "OSPID" -> <<9, 5, 0>>
       [] k = "BFID"  -> <<2, 1>>
       [] k = "RATES" -> NoField
       [] k = "OPHRS" -> NoField
       [] OTHER       -> c[k]]

WideEntries ==
  { WideEntry(type, c) : type \in {"OFF", "ON", "off"}, c \in WideCoordinates }

WideDocs ==
  { [STATUS |-> "SUCCESS", AVAILABILITY_UPDATED_TIMESTAMP |-> t,
     AVL |-> <<e>>, ERROR_CODE |-> "", MESSAGE |-> ""]
      : t \in WideTimestamps, e \in WideEntries }

\* the shapes of a nested field: absent, one object, a list; well-formed
\* or not
ShapeDetails ==
  [RATES : { NoField, ObjField(GoodJson), ObjField(BadJson),
             ListField(<<GoodJson>>), ListField(<<GoodJson, GoodJson>>),
             ListField(<<BadJson>>) },
   OPHRS : { NoField, ObjField(GoodJson), ListField(<<GoodJson>>) }]

ShapeEntries == { AvlEntry(i, d) : i \in {1, 2}, d \in ShapeDetails }

\* responses of two entries
ShapeDocs ==
  { [STATUS |-> "SUCCESS",
     AVAILABILITY_UPDATED_TIMESTAMP |-> <<Stamp(2013, 7, 4), <<5>>>>,
     AVL |-> <<e, f>>, ERROR_CODE |-> "", MESSAGE |-> ""]
      : e \in ShapeEntries, f \in ShapeEntries }

FirstCycleNext ==
  \/ Startup
  \/ LoopContinue
  \/ \E doc \in WideDocs \cup ShapeDocs : Collect(doc)
  \/ Commit

FirstCycleSpec == Init /\ [][FirstCycleNext]_vars

(***************************************************************************)
(* What a cycle has done, read in the state collectSFparkData leaves:      *)
(* pc = "commit" when it reached line 142, pc = "crashed" with ValueError  *)
(* when a record constructor raised.                                       *)
(***************************************************************************)
Bucket == DateId(UpdatedTime(data.AVAILABILITY_UPDATED_TIMESTAMP))

\* collectSFparkData has processed a SUCCESS response in this cycle
Processed ==
  /\ data.STATUS = "SUCCESS"
  /\ \/ pc = "commit"
     \/ pc = "crashed" /\ exception = "ValueError"

SameDay  == Processed /\ Bucket = pre.lastDate
Rollover == Processed /\ Bucket # pre.lastDate

EntryIds == { LocId(data.AVL[k]) : k \in 1..Len(data.AVL) }

\* number of elements of a nested field that is a list
ListLen(field) == IF field.has /\ field.isList THEN Len(field.items) ELSE 0

RECURSIVE SumTo(_, _)
SumTo(f, n) == IF n = 0 THEN 0 ELSE f[n] + SumTo(f, n - 1)

RateItems  == SumTo([k \in 1..Len(data.AVL) |-> ListLen(data.AVL[k].RATES)],
                    Len(data.AVL))
HoursItems == SumTo([k \in 1..Len(data.AVL) |-> ListLen(data.AVL[k].OPHRS)],
                    Len(data.AVL))

C2_Rollover ==
  Rollover =>
    /\ lastDate = Bucket
    /\ { session.loc[k].id : k \in 1..Len(session.loc) }
         = EntryIds \ pre.storedLocations
    /\ storedLocations = pre.storedLocations \cup EntryIds
    /\ Len(session.rates) = RateItems
    /\ Len(session.ophrs) = HoursItems

\* C3: every cycle with STATUS SUCCESS stages one availability row per entry
\* of the response, in order, with the entry's id and the cycle's bucket and
\* timestamp, whatever the tracker held.
C3_Availability ==
  Processed =>
    /\ Len(session.avl) = Len(data.AVL)
    /\ \A k \in 1..Len(session.avl) :
         /\ session.avl[k].loc_id = LocId(data.AVL[k])
         /\ session.avl[k].date_id = Bucket
         /\ session.avl[k].availability_updated_timestamp
              = UpdatedTime(data.AVAILABILITY_UPDATED_TIMESTAMP)

\* C4 (as claimed): over all cycles and restarts every location id is added
\* to a session at most once, never when its row is in sfpark_loc, and once
\* for a response that names it several times.
C4_StagedOnceEver ==
  /\ \A i \in BagToSet(everStaged) : CopiesIn(i, everStaged) <= 1
  /\ ~PrimaryKeyConflict(db, session)

\* C4 (amended): within one run of the process every location id is added to
\* the session at most once; over all cycles and restarts no id whose row is
\* in sfpark_loc is added again and no two pending rows share an id, so no
\* Location row is written twice.
C4_NoDuplicateLocation ==
  /\ \A i \in BagToSet(runStaged) : CopiesIn(i, runStaged) <= 1
  /\ ~PrimaryKeyConflict(db, session)
  /\ \A r, q \in db.loc : r.id = q.id => r = q

\* after a restart, a refresh of a response that names a stored id and a
\* new one: only the new one is pending
C4_Witness ==
  /\ Rollover
  /\ pc = "commit"
  /\ pre.lastDate = 0
  /\ EntryIds \cap LocIds(db.loc) # {}
  /\ Len(session.loc) = 1

\* C5: Rate / Hours rows with a given date_id are written in one cycle only:
\* a commit that writes such rows finds none of that date_id in the tables.
C5_OneGenerationPerDay ==
  [][ (pc = "commit" /\ pc' = "sleep") =>
        \A r \in Range(session.rates) \cup Range(session.ophrs) :
          \A q \in BagToSet(db.rates) \cup BagToSet(db.ophrs) :
            q.date_id # r.date_id ]_vars

\* C6: a cycle whose response is not SUCCESS adds no row to the session,
\* prints the provider's code and message, leaves storedLocations and
\* lastDate as they were, and goes on to a commit that cannot fail; no such
\* cycle ends the process.
C6_NonSuccess ==
  /\ (pc = "commit" /\ data.STATUS # "SUCCESS") =>
       /\ SessionEmpty(session)
       /\ printed = data.ERROR_CODE \o " " \o data.MESSAGE
       /\ storedLocations = pre.storedLocations
       /\ lastDate = pre.lastDate
       /\ exitStatus = -1
       /\ ~PrimaryKeyConflict(db, session)
  /\ pc = "crashed" => data.STATUS # "ERROR"

\* an ERROR response after a cycle that has set the tracker
C6_Witness ==
  /\ pc = "commit"
  /\ data.STATUS = "ERROR"
  /\ lastDate # 0
  /\ storedLocations # {}

\* C7: when the request of a cycle fails the process goes on: nothing is
\* pending or written, the tracker is as before, the loop is still running.
C7_TransportNotFatal ==
  exception = "ConnectionError" =>
    /\ Running
    /\ exitStatus = -1
    /\ SessionEmpty(session)
    /\ storedLocations = pre.storedLocations
    /\ lastDate = pre.lastDate

\* the rows of table t' are those of t and one more per element of rows
Appended(t, rows, tNew) ==
  /\ BagCardinality(tNew) = BagCardinality(t) + Len(rows)
  /\ \A r \in Range(rows) :
       CopiesIn(r, tNew) =
         CopiesIn(r, t) + Cardinality({ k \in 1..Len(rows) : rows[k] = r })

\* C8: the tables change only in the commit that ends a cycle, which writes
\* every pending row of the four tables at once, the pending rows being all
\* the rows of the cycle; a cycle that fails, in a record constructor or in
\* the commit, changes no table.
C8_AtomicCycle ==
  [][ /\ (pc = "commit" /\ pc' = "sleep") =>
           /\ db'.loc = db.loc \cup Range(session.loc)
           /\ Cardinality(db'.loc) = Cardinality(db.loc) + Len(session.loc)
           /\ Appended(db.avl, session.avl, db'.avl)
           /\ Appended(db.rates, session.rates, db'.rates)
           /\ Appended(db.ophrs, session.ophrs, db'.ophrs)
           /\ data.STATUS = "SUCCESS" => Len(session.avl) = Len(data.AVL)
      /\ ~(pc = "commit" /\ pc' = "sleep") => db' = db ]_vars

\* a record constructor raised after a Location row was added to the
\* session: the row is pending and in no table
C8_Witness ==
  /\ pc = "crashed"
  /\ exception = "ValueError"
  /\ Len(session.loc) > 0
  /\ LocIds(Range(session.loc)) \cap LocIds(db.loc) = {}

\* a step of input_thread
ListenerStep == lpc' # lpc /\ lpc' \in {"append", "done"}

\* the start of a new process
RestartStep == ~Running /\ pc' = "start"

C10_Shutdown ==
  /\ (lpc = "append") ~> (pc = "stopped" /\ ~sessionOpen /\ exitStatus = 0)
  /\ [](afterFlag <= 1)

\* C11: a process started without the connection string prints the usage
\* text and exits with a non-zero status; it opens no session and runs no
\* cycle.
C11_UsageOnMissingArgument ==
  (Len(argv) < 2 /\ pc # "start") =>
    /\ ~Running
    /\ printed = USAGE
    /\ exitStatus \notin {-1, 0}
    /\ ~sessionOpen
    /\ data = NoData

\* C12: the sleep that follows a cycle lasts max(0, Interval - elapsed)
\* seconds, elapsed being measured from the start of the cycle: the next
\* cycle starts Interval after this one when elapsed <= Interval, and at once
\* when elapsed > Interval; the sleep is never negative.
C12_Cadence ==
  tick # NoTick =>
    /\ pc = "check"
    /\ tick.slept >= 0
    /\ tick.elapsed <= Interval => tick.elapsed + tick.slept = Interval
    /\ tick.elapsed > Interval => tick.slept = 0

\* a cycle that took longer than the interval
C12_Witness == tick # NoTick /\ tick.elapsed > Interval /\ pc = "check"

\* the year, month and day of the timestamp of the response
StampDay == SubSeq(data.AVAILABILITY_UPDATED_TIMESTAMP[1], 1, 3)

\* C13: the date_id of a timestamp, with or without a fraction, is
\* year*10000 + month*100 + day; 2013-07-04T10:00:00 gives 20130704; two
\* timestamps have the same date_id exactly when they are of the same day;
\* every date_id is above 0.
C13_DateBucket ==
  /\ Processed =>
       /\ lastDate = StampDay[1] * 10000 + StampDay[2] * 100 + StampDay[3]
       /\ lastDate > 0
       /\ StampDay = <<2013, 7, 4>> => lastDate = 20130704
       /\ \A k \in 1..Len(session.avl) : session.avl[k].date_id = lastDate
  /\ \A t, u \in WideTimestamps :
       (DateId(UpdatedTime(t)) = DateId(UpdatedTime(u)))
         <=> (SubSeq(t[1], 1, 3) = SubSeq(u[1], 1, 3))

\* 2013-07-04T10:00:00 without a fraction has been processed
C13_Witness ==
  /\ Processed
  /\ Len(data.AVAILABILITY_UPDATED_TIMESTAMP) = 1
  /\ lastDate = 20130704

\* C14: the id of an entry is int(OSPID) when its TYPE is exactly "OFF" and
\* int(BFID) for every other TYPE; the Location row and the Availability row
\* made from one entry carry that same id.
C14_LocationId ==
  (Processed /\ Len(data.AVL) = 1 /\ Has(data.AVL[1], "OSPID")
     /\ Has(data.AVL[1], "BFID")) =>
    LET e  == data.AVL[1]
        id == IF e.TYPE = "OFF" THEN int(e.OSPID) ELSE int(e.BFID)
    IN  /\ Len(session.loc) = 1 /\ session.loc[1].id = id
        /\ Len(session.avl) = 1 /\ session.avl[1].loc_id = id
        /\ e.OSPID = <<9, 5, 0>> /\ e.BFID = <<2, 1>> =>
             id = (IF e.TYPE = "OFF" THEN 950 ELSE 21)

\* an entry whose TYPE is neither "OFF" nor "ON" has got its rows
C14_Witness ==
  /\ pc = "commit"
  /\ Len(data.AVL) = 1
  /\ data.AVL[1].TYPE = "off"
  /\ Len(session.loc) = 1
  /\ session.loc[1].id = 21

\* C16: with PTS 1 the Location row has lon1 = LOC[0] and lat1 = LOC[1] and
\* no second pair; with PTS 2 it has lon1, lat1 = LOC[0], LOC[1] and
\* lon2, lat2 = LOC[2], LOC[3]; with any other PTS, or none, or no LOC, it
\* has no coordinate.  (LOC "-122.4,37.7,-122.5,37.8", in thousandths.)
C16_Coordinates ==
  (pc = "commit" /\ Len(session.loc) = 1 /\ Len(data.AVL) = 1) =>
    LET e   == data.AVL[1]
        r   == session.loc[1]
        pts == IF Has(e, "PTS") /\ Has(e, "LOC") THEN int(e.PTS) ELSE 0
    IN  /\ pts = 1 =>
             /\ r.lon1 = Some(-122400) /\ r.lat1 = Some(37700)
             /\ r.lon2 = None /\ r.lat2 = None
        /\ pts = 2 =>
             /\ r.lon1 = Some(-122400) /\ r.lat1 = Some(37700)
             /\ r.lon2 = Some(-122500) /\ r.lat2 = Some(37800)
        /\ pts \notin {1, 2} =>
             /\ r.lon1 = None /\ r.lat1 = None
             /\ r.lon2 = None /\ r.lat2 = None

\* a Location row with two points is pending
C16_Witness ==
  /\ pc = "commit"
  /\ Len(session.loc) = 1
  /\ session.loc[1].pts = Some(2)
  /\ session.loc[1].lon2 = Some(-122500)

\* the elements of a list-shaped field whose times are well-formed
GoodLen(field) ==
  IF field.has /\ field.isList
  THEN Cardinality({ k \in 1..Len(field.items) : ~RecordRaises(field.items[k]) })
  ELSE 0

\* C15: a malformed BEG or END fails its own record only: the cycle goes on
\* to its commit with the Location rows of the other entries, a row for
\* every well-formed Rate and Hours element, and every Availability row.
C15_RecordIsolation ==
  Processed =>
    /\ pc = "commit"
    /\ Len(session.avl) = Len(data.AVL)
    /\ Rollover =>
         /\ EntryIds \subseteq storedLocations
         /\ Len(session.rates) =
              SumTo([k \in 1..Len(data.AVL) |-> GoodLen(data.AVL[k].RATES)],
                    Len(data.AVL))
         /\ Len(session.ophrs) =
              SumTo([k \in 1..Len(data.AVL) |-> GoodLen(data.AVL[k].OPHRS)],
                    Len(data.AVL))

C18_Lifecycle ==
  [][ /\ pc' = "close" => printed' = "  waiting."
      /\ pc \in {"close", "stopped"} =>
           (pc' \in {"close", "stopped"} \/ RestartStep)
      /\ (pc' = "collect" /\ pc # "collect") =>
           (pc = "check" /\ SessionEmpty(session) /\ data = NoData)
      /\ pc = "stopped" => (pc' = "stopped" \/ RestartStep) ]_vars

\* C19: the first successful response of a process passes the date gate:
\* a Location row is added for exactly the ids of the response that are not
\* in the table, a Rate / Hours row for every listed element, and every
\* Availability row; on an empty table, lot 1 without rates or hours gives
\* one Location row, one Availability row and no Rate / Hours row.
C19_FirstCycle ==
  (Processed /\ pre.lastDate = 0) =>
    /\ Rollover
    /\ pre.storedLocations = LocIds(db.loc)
    /\ { session.loc[k].id : k \in 1..Len(session.loc) } =
         EntryIds \ LocIds(db.loc)
    /\ Len(session.loc) = Cardinality(EntryIds \ LocIds(db.loc))
    /\ Len(session.rates) = RateItems
    /\ Len(session.ophrs) = HoursItems
    /\ Len(session.avl) = Len(data.AVL)
    /\ (db.loc = {} /\ data.AVL = <<AvlEntry(1, PlainDetail)>>) =>
         /\ Len(session.loc) = 1 /\ Len(session.avl) = 1
         /\ Len(session.rates) = 0 /\ Len(session.ophrs) = 0

\* the rows of a table of the session that reference location id
RowsFor(rows, id) == Cardinality({ k \in 1..Len(rows) : rows[k].loc_id = id })

\* C20: in a cycle that passes the date gate an entry gives one Rate row per
\* element when its RATES.RS is a list and none when it is absent or a
\* single object, and likewise for OPHRS.OPS; entries without a list raise
\* no error.
C20_ListShape ==
  (Processed /\ Rollover) =>
    /\ \A id \in EntryIds :
         /\ RowsFor(session.rates, id) =
              SumTo([k \in 1..Len(data.AVL) |->
                       IF LocId(data.AVL[k]) = id
                       THEN ListLen(data.AVL[k].RATES) ELSE 0], Len(data.AVL))
         /\ RowsFor(session.ophrs, id) =
              SumTo([k \in 1..Len(data.AVL) |->
                       IF LocId(data.AVL[k]) = id
                       THEN ListLen(data.AVL[k].OPHRS) ELSE 0], Len(data.AVL))
    /\ (RateItems + HoursItems = 0) => pc = "commit"

\* C21: between two cycles of a running process storedLocations is the set
\* of the ids of the rows of sfpark_loc, and so it is when a cycle begins;
\* at the commit it is those ids and the ids of the pending Location rows.
\* A cycle that fails ends the process, and the next process reads the ids
\* from the table.
C21_TrackerStoreConsistency ==
  /\ pc \in {"check", "sleep", "collect"} => storedLocations = LocIds(db.loc)
  /\ pc = "collect" => pre.storedLocations = LocIds(db.loc)
  /\ pc = "commit" =>
       storedLocations = LocIds(db.loc) \cup LocIds(Range(session.loc))

\* a process runs after one that had added an id and failed before its
\* commit: the id is not known
C21_Witness ==
  /\ pc = "check"
  /\ \E i \in BagToSet(everStaged) :
       i \notin LocIds(db.loc) /\ i \notin storedLocations

\* C22: every Rate or Hours row added to the session references an id that
\* is in storedLocations and whose Location row is in the table or pending
\* in the same session; every such row in the tables references a row of
\* sfpark_loc.
C22_NoOrphanRates ==
  /\ \A r \in Range(session.rates) \cup Range(session.ophrs) :
       /\ r.loc_id \in storedLocations
       /\ r.loc_id \in LocIds(db.loc) \cup LocIds(Range(session.loc))
  /\ \A r \in BagToSet(db.rates) \cup BagToSet(db.ophrs) :
       r.loc_id \in LocIds(db.loc)

\* a Rate row is pending with the Location row of its id
C22_Witness ==
  /\ pc = "commit"
  /\ \E k \in 1..Len(session.rates) :
       /\ session.rates[k].loc_id \in LocIds(Range(session.loc))
       /\ session.rates[k].loc_id \notin LocIds(db.loc)

\* the step in which a response is processed
ResponseStep == pc = "collect" /\ data' # NoData

\* C23: lastDate is 0 when a process starts and changes only when a SUCCESS
\* response is processed, to the date_id of that response whether it is
\* above or below the stored one; a response of an older date_id passes the
\* gate; a response that is not SUCCESS leaves lastDate as it is.
C23_LastDate ==
  [][ /\ (ResponseStep /\ data'.STATUS = "SUCCESS") =>
           /\ lastDate' = DateId(UpdatedTime(data'.AVAILABILITY_UPDATED_TIMESTAMP))
           /\ (lastDate' < lastDate /\ Len(data'.AVL) > 0) =>
                LocId(data'.AVL[1]) \in storedLocations'
      /\ (ResponseStep /\ data'.STATUS # "SUCCESS") => lastDate' = lastDate
      /\ pc' = "start" => lastDate' = 0
      /\ (~ResponseStep /\ pc' # "start") => lastDate' = lastDate ]_vars

\* a response of an older date_id has been processed as a refresh
C23_Witness ==
  /\ Processed
  /\ pre.lastDate > 0
  /\ Bucket < pre.lastDate
  /\ lastDate = Bucket
  /\ EntryIds \ pre.storedLocations # {}

=============================================================================
